---- MODULE Spec2Model ----
(***************************************************************************)
(* Dice-mining validator: the chain rule engine (validation/gameRules),    *)
(* bottom up: requiredColors, genesis recognition, predecessor matching,   *)
(* column assignment, the per-block validation loop of buildChain, the     *)
(* longest-chain search and the result assembled by validateBlocks.        *)
(*                                                                         *)
(* Numbers are integers.  position.x, bounds.width and the column width    *)
(* are kept exact: a quotient a/b is carried as the pair (a, b) and        *)
(* Math.round is computed on that pair.                                    *)
(***************************************************************************)
EXTENDS Integers, Sequences, FiniteSets, TLC

VARIABLES
    blocks,            \* the DetectedBlock[] handed to validateBlocks
    difficulty,        \* the difficulty argument
    pc,                \* position inside validateBlocks
    sortedBlocks,      \* buildChain: blocks with columns, sorted by column
    validatedBlocks,   \* buildChain: the ValidatedBlock[] built so far
    validationResult,  \* the ValidationResult returned (Null before)
    blockA,            \* first argument of the predicate under test
    blockB,            \* second argument of the predicate under test
    swaps,             \* number of dice reorderings applied so far
    lastResult,        \* the last predicate called and what it returned
    detected,          \* detectDiceWithDebug: the DetectedDie[] pushed so far
    debugCandidates,        \* detectDiceWithDebug: every region seen, with verdict
    filteredDice,      \* detectDiceWithDebug: the dice returned
    diceArg,              \* groupDiceIntoBlocks: the DetectedDie[] argument
    sortedDice,        \* groupDiceIntoBlocks: the dice sorted by bounds.x
    used,              \* groupDiceIntoBlocks: indices already clustered
    groupI,            \* groupDiceIntoBlocks: the outer loop index i
    cluster,           \* groupDiceIntoBlocks: the cluster last completed
    groupBlocks,       \* groupDiceIntoBlocks: the blocks array built so far
    editedBlocks,      \* BlockReview: the blocks under review
    selectedBlockIndex,\* BlockReview: 1-based index, 0 for null
    selectedDieIndex,  \* BlockReview: 1-based index, 0 for null
    edits,             \* BlockReview: number of edit calls so far
    screen,            \* App: the screen shown
    cvReady,           \* App: OpenCV has loaded
    capturedImage,     \* App: the captured image (Null before)
    detectedBlocks,    \* App: the blocks handed to the review
    shownResult,       \* App: validationResult, <<>> for null, else <<result>>
    error,             \* App: the error message (Null for none)
    calibration        \* App: the calibration data (isCalibrated only)

vars == <<blocks, difficulty, pc, sortedBlocks, validatedBlocks,
          validationResult, blockA, blockB, swaps, lastResult,
          detected, debugCandidates, filteredDice,
          diceArg, sortedDice, used, groupI, cluster, groupBlocks,
          editedBlocks, selectedBlockIndex, selectedDieIndex, edits,
          screen, cvReady, capturedImage, detectedBlocks, shownResult,
          error, calibration>>

chainVars == <<blocks, difficulty, pc, sortedBlocks, validatedBlocks,
               validationResult>>

pairVars == <<blockA, blockB, swaps, lastResult>>

\* the validator's variables other than pc
validatorVars == <<blocks, difficulty, sortedBlocks, validatedBlocks,
                   validationResult>>

detectVars == <<detected, debugCandidates, filteredDice>>

groupVars == <<diceArg, sortedDice, used, groupI, cluster, groupBlocks>>

reviewVars == <<editedBlocks, selectedBlockIndex, selectedDieIndex, edits>>

appVars == <<screen, cvReady, capturedImage, detectedBlocks, shownResult,
             error, calibration>>

(***************************************************************************)
(* Bounds of the model.                                                    *)
(***************************************************************************)
MaxBlocks == 3

MaxSwaps == 2

\* contours found in one image
MaxContours == 3

\* dice lying in one tray
MaxTrayDice == 12

\* dice lying outside the trays
MaxStrays == 2

\* calls of changeDieColor and changeDiePips in one review
MaxEdits == 3

(***************************************************************************)
(* types.ts                                                                *)
(***************************************************************************)
DICE_COLORS == <<"red", "orange", "yellow", "green", "blue", "purple">>

Colors == {DICE_COLORS[i] : i \in 1..Len(DICE_COLORS)}

Pips == 1..6

VALUE_TO_COLOR(pips) ==
    CASE pips = 1 -> "red"
      [] pips = 2 -> "orange"
      [] pips = 3 -> "yellow"
      [] pips = 4 -> "green"
      [] pips = 5 -> "blue"
      [] pips = 6 -> "purple"

GENESIS_PATTERN ==
    <<"red", "red", "orange", "orange", "yellow", "yellow",
      "green", "green", "green">>

GENESIS_VALUES == <<1, 1, 2, 2, 3, 3, 4, 4, 4>>

Null == "null"

\* no predicate called yet
NoResult == [op |-> "none", value |-> FALSE]

(***************************************************************************)
(* Array helpers.                                                          *)
(***************************************************************************)
\* Array.prototype.map
Map(Op(_), s) == [i \in 1..Len(s) |-> Op(s[i])]

RECURSIVE SumSeq(_)
\* reduce((a, b) => a + b, 0)
SumSeq(s) == IF s = <<>> THEN 0 ELSE s[1] + SumSeq(Tail(s))

RECURSIVE MaxSeq(_)
\* Math.max(...s) of a non-empty array
MaxSeq(s) ==
    IF Len(s) = 1 THEN s[1]
    ELSE LET m == MaxSeq(Tail(s)) IN IF s[1] > m THEN s[1] ELSE m

\* Position of a color string in the order of the default Array.prototype.sort
\* (UTF-16 code units): blue < green < orange < purple < red < yellow.
ColorRank(c) ==
    CASE c = "blue"   -> 1
      [] c = "green"  -> 2
      [] c = "orange" -> 3
      [] c = "purple" -> 4
      [] c = "red"    -> 5
      [] c = "yellow" -> 6

RECURSIVE InsertColor(_, _)
InsertColor(c, s) ==
    IF s = <<>> THEN <<c>>
    ELSE IF ColorRank(c) < ColorRank(s[1]) THEN <<c>> \o s
    ELSE <<s[1]>> \o InsertColor(c, Tail(s))

RECURSIVE SortColors(_)
\* colors.sort(): ascending, equal elements adjacent
SortColors(s) ==
    IF s = <<>> THEN <<>> ELSE InsertColor(s[1], SortColors(Tail(s)))

dieColor(d) == d.color

diePips(d) == d.pips

dieWidth(d) == d.width

(***************************************************************************)
(* gameRules: requiredColors, genesis, predecessor                         *)
(***************************************************************************)
getRequiredColors(dice) == Map(LAMBDA d : VALUE_TO_COLOR(d.pips), dice)

\* the comparison without the length test
isGenesisBlockNoLength(block) ==
    LET colors == SortColors(Map(dieColor, block.dice))
        genesisColors == SortColors(GENESIS_PATTERN)
    IN  \A i \in 1..Len(colors) :
            i <= Len(genesisColors) /\ colors[i] = genesisColors[i]

isGenesisBlock(block) ==
    LET colors == SortColors(Map(dieColor, block.dice))
        genesisColors == SortColors(GENESIS_PATTERN)
    IN  IF Len(colors) # Len(genesisColors) THEN FALSE
        ELSE \A i \in 1..Len(colors) : colors[i] = genesisColors[i]

\* the comparison without the two sorts
canBePredecessorUnsorted(blockA_, blockB_) ==
    LET requiredColors == getRequiredColors(blockA_.dice)
        actualColors == Map(dieColor, blockB_.dice)
    IN  IF Len(requiredColors) # Len(actualColors) THEN FALSE
        ELSE \A i \in 1..Len(requiredColors) :
                 requiredColors[i] = actualColors[i]

canBePredecessor(blockA_, blockB_) ==
    LET requiredColors == getRequiredColors(blockA_.dice)
        actualColors == Map(dieColor, blockB_.dice)
        sortedRequired == SortColors(requiredColors)
        sortedActual == SortColors(actualColors)
    IN  IF Len(sortedRequired) # Len(sortedActual) THEN FALSE
        ELSE \A i \in 1..Len(sortedRequired) :
                 sortedRequired[i] = sortedActual[i]

(***************************************************************************)
(* gameRules: assignColumns                                                *)
(***************************************************************************)
\* Math.round(num / den) for den > 0: the nearest integer, halves upwards
MathRound(num, den) == (2 * num + den) \div (2 * den)

\* Math.max(a, b)
MathMax(a, b) == IF a >= b THEN a ELSE b

\* blocks.findIndex(isGenesisBlock), 1-based; 0 when there is none
genesisIndexOf(bs) ==
    IF \E i \in 1..Len(bs) : isGenesisBlock(bs[i])
    THEN CHOOSE i \in 1..Len(bs) :
             /\ isGenesisBlock(bs[i])
             /\ \A j \in 1..(i - 1) : ~isGenesisBlock(bs[j])
    ELSE 0

\* sum over the blocks of Math.max(...diceWidths) * 3; avgWidth is this sum
\* divided by blocks.length
widthSum(bs) ==
    SumSeq(Map(LAMBDA b : MaxSeq(Map(dieWidth, b.dice)) * 3, bs))

\* columnWidth = avgWidth * 1.5 = (3 * widthSum) / (2 * blocks.length), kept
\* as numerator and denominator
columnWidthNum(bs) == 3 * widthSum(bs)

columnWidthDen(bs) == 2 * Len(bs)

\* sortedByX[0].position.x
minXOf(bs) ==
    CHOOSE x \in {bs[i].x : i \in 1..Len(bs)} :
        \A i \in 1..Len(bs) : x <= bs[i].x

\* direction: 1 when at least as many blocks lie right of genesis as left
directionOf(bs, genesisX) ==
    LET blocksToRight == Cardinality({i \in 1..Len(bs) : bs[i].x > genesisX})
        blocksToLeft == Cardinality({i \in 1..Len(bs) : bs[i].x < genesisX})
    IN  IF blocksToRight >= blocksToLeft THEN 1 ELSE -1

\* the column of one block when no genesis block was found
columnNoGenesis(bs, block) ==
    MathRound((block.x - minXOf(bs)) * columnWidthDen(bs), columnWidthNum(bs))

\* the column of one block relative to the genesis block
columnFromGenesis(bs, block, genesisX) ==
    MathMax(0, MathRound((block.x - genesisX) * directionOf(bs, genesisX)
                             * columnWidthDen(bs),
                         columnWidthNum(bs)))

\* columns recomputed only when the input carries none
assignColumnsTrustingInput(bs) ==
    IF Len(bs) = 0 THEN <<>>
    ELSE IF \E i \in 1..Len(bs) : bs[i].column # 0 THEN bs
    ELSE LET g == genesisIndexOf(bs) IN
         [i \in 1..Len(bs) |->
             [bs[i] EXCEPT !.column =
                  IF g = 0 THEN columnNoGenesis(bs, bs[i])
                  ELSE columnFromGenesis(bs, bs[i], bs[g].x)]]

assignColumns(bs) ==
    IF Len(bs) = 0 THEN <<>>
    ELSE LET genesisIndex == genesisIndexOf(bs) IN
         IF genesisIndex = 0
         THEN [i \in 1..Len(bs) |->
                   [bs[i] EXCEPT !.column = columnNoGenesis(bs, bs[i])]]
         ELSE [i \in 1..Len(bs) |->
                   [bs[i] EXCEPT !.column =
                        columnFromGenesis(bs, bs[i], bs[genesisIndex].x)]]

\* the columns written into the blocks of the argument itself
assignColumnsInPlace(bs) ==
    IF Len(bs) = 0 THEN <<>>
    ELSE LET g == genesisIndexOf(bs) IN
         [i \in 1..Len(bs) |->
             [bs[i] EXCEPT !.column =
                  IF g = 0 THEN columnNoGenesis(bs, bs[i])
                  ELSE columnFromGenesis(bs, bs[i], bs[g].x)]]

\* What the call leaves in its argument: blocks.map builds new objects with
\* {...block, column}, so the array passed in and its blocks are not written.
assignColumnsArgument(bs) == bs

RECURSIVE InsertByColumn(_, _)
InsertByColumn(b, s) ==
    IF s = <<>> THEN <<b>>
    ELSE IF b.column < s[1].column THEN <<b>> \o s
    ELSE <<s[1]>> \o InsertByColumn(b, Tail(s))

RECURSIVE SortFrom(_, _)
SortFrom(s, k) ==
    IF k = 0 THEN <<>>
    ELSE InsertByColumn(s[k], SortFrom(s, k - 1))

\* [...blocksWithColumns].sort((a, b) => a.column - b.column): ascending
\* column, blocks of one column in their input order (the sort is stable)
sortByColumn(s) == SortFrom(s, Len(s))

(***************************************************************************)
(* gameRules: buildChain, the body of the loop over sortedBlocks           *)
(***************************************************************************)
RECURSIVE CountOf(_, _)
\* counts[color] after the loop of countColors
CountOf(color, colors) ==
    IF colors = <<>> THEN 0
    ELSE (IF colors[1] = color THEN 1 ELSE 0) + CountOf(color, Tail(colors))

\* countColors: the colors with a positive count, in the key order of the
\* counts record (red, orange, yellow, green, blue, purple), each as
\* "<count> <color>"
countColors(colors) ==
    LET entries == [i \in 1..Len(DICE_COLORS) |->
                       [count |-> CountOf(DICE_COLORS[i], colors),
                        color |-> DICE_COLORS[i]]]
    IN  SelectSeq(entries, LAMBDA e : e.count > 0)

\* The diagnostics pushed to errors; every message keeps the values it names.
ErrGenesisColumn ==
    [kind |-> "Genesis block should be in column 0",
     a |-> 0, b |-> 0, required |-> <<>>, got |-> <<>>]

ErrGenesisTotal(total, expectedTotal) ==
    [kind |-> "Genesis total <a> doesn't match expected <b>",
     a |-> total, b |-> expectedTotal, required |-> <<>>, got |-> <<>>]

ErrExceeds(total, d) ==
    [kind |-> "Total <a> exceeds difficulty <b>",
     a |-> total, b |-> d, required |-> <<>>, got |-> <<>>]

ErrNoColumn(column) ==
    [kind |-> "No valid blocks in column <a> to build on",
     a |-> column, b |-> 0, required |-> <<>>, got |-> <<>>]

ErrNoMatch ==
    [kind |-> "Dice colors do not match any predecessor's values",
     a |-> 0, b |-> 0, required |-> <<>>, got |-> <<>>]

ErrRequiredGot(required, actual) ==
    [kind |-> "Required: <required>, Got: <got>",
     a |-> 0, b |-> 0,
     required |-> countColors(required), got |-> countColors(actual)]

\* the filter without its column test
predecessorCandidatesAnyColumn(validated, block) ==
    SelectSeq(validated, LAMBDA vb : vb.isValid)

\* the filter without its isValid test
predecessorCandidatesAnyValidity(validated, block) ==
    SelectSeq(validated, LAMBDA vb : vb.column = block.column - 1)

\* the filter looking in the block's own column
predecessorCandidatesSameColumn(validated, block) ==
    SelectSeq(validated, LAMBDA vb : vb.column = block.column /\ vb.isValid)

\* validatedBlocks.filter(vb => vb.column === block.column - 1 && vb.isValid)
predecessorCandidates(validated, block) ==
    SelectSeq(validated,
              LAMBDA vb : vb.column = block.column - 1 /\ vb.isValid)

\* the loop without its break: the last matching candidate wins
lastMatch(candidates, block) ==
    IF \E i \in 1..Len(candidates) : canBePredecessor(candidates[i], block)
    THEN CHOOSE i \in 1..Len(candidates) :
             /\ canBePredecessor(candidates[i], block)
             /\ \A j \in (i + 1)..Len(candidates) :
                    ~canBePredecessor(candidates[j], block)
    ELSE 0

\* index of the first candidate that canBePredecessor(candidate, block);
\* 0 when the loop ends without a break
firstMatch(candidates, block) ==
    IF \E i \in 1..Len(candidates) : canBePredecessor(candidates[i], block)
    THEN CHOOSE i \in 1..Len(candidates) :
             /\ canBePredecessor(candidates[i], block)
             /\ \A j \in 1..(i - 1) : ~canBePredecessor(candidates[j], block)
    ELSE 0

\* the genesis branch with the total mismatch made fatal
genesisOutcomeStrictTotal(block) ==
    LET expectedTotal == SumSeq(GENESIS_VALUES)
        e1 == IF block.column # 0 THEN <<ErrGenesisColumn>> ELSE <<>>
        e2 == IF block.total # expectedTotal
              THEN <<ErrGenesisTotal(block.total, expectedTotal)>> ELSE <<>>
    IN  [errors |-> e1 \o e2,
         predecessorId |-> Null,
         isValid |-> (block.column = 0 /\ block.total = expectedTotal)]

\* the genesis branch: errors and isValid
genesisOutcome(block) ==
    LET expectedTotal == SumSeq(GENESIS_VALUES)
        e1 == IF block.column # 0 THEN <<ErrGenesisColumn>> ELSE <<>>
        e2 == IF block.total # expectedTotal
              THEN <<ErrGenesisTotal(block.total, expectedTotal)>> ELSE <<>>
    IN  [errors |-> e1 \o e2,
         predecessorId |-> Null,
         isValid |-> (block.column = 0)]

\* the difficulty test with >= for >
exceedsDifficultyInclusive(total, d) == total >= d

\* the difficulty test of the non-genesis branch
exceedsDifficulty(total, d) == total > d

\* the non-genesis branch without the difficulty message
successorOutcomeNoDifficultyMessage(block, validated, d) ==
    LET tooBig == exceedsDifficulty(block.total, d)
        candidates == predecessorCandidates(validated, block)
        m == firstMatch(candidates, block)
    IN  IF Len(candidates) = 0
        THEN [errors |-> <<ErrNoColumn(block.column - 1)>>,
              predecessorId |-> Null,
              isValid |-> FALSE]
        ELSE IF m # 0
        THEN [errors |-> <<>>,
              predecessorId |-> candidates[m].id,
              isValid |-> ~tooBig]
        ELSE [errors |->
                  <<ErrNoMatch>> \o
                  (IF Len(candidates) = 1
                   THEN <<ErrRequiredGot(getRequiredColors(candidates[1].dice),
                                         Map(dieColor, block.dice))>>
                   ELSE <<>>),
              predecessorId |-> Null,
              isValid |-> FALSE]

\* the non-genesis branch: errors, predecessorId and isValid
successorOutcome(block, validated, d) ==
    LET tooBig == exceedsDifficulty(block.total, d)
        e1 == IF tooBig THEN <<ErrExceeds(block.total, d)>> ELSE <<>>
        candidates == predecessorCandidates(validated, block)
        m == firstMatch(candidates, block)
    IN  IF Len(candidates) = 0
        THEN [errors |-> e1 \o <<ErrNoColumn(block.column - 1)>>,
              predecessorId |-> Null,
              isValid |-> FALSE]
        ELSE IF m # 0
        THEN [errors |-> e1,
              predecessorId |-> candidates[m].id,
              isValid |-> ~tooBig]
        ELSE [errors |->
                  e1 \o <<ErrNoMatch>> \o
                  (IF Len(candidates) = 1
                   THEN <<ErrRequiredGot(getRequiredColors(candidates[1].dice),
                                         Map(dieColor, block.dice))>>
                   ELSE <<>>),
              predecessorId |-> Null,
              isValid |-> FALSE]

\* the iteration with the genesis branch taken only in column 0
validateOneGenesisInColumnZero(block, validated, d) ==
    LET blockIsGenesis == isGenesisBlock(block)
        o == IF blockIsGenesis /\ block.column = 0 THEN genesisOutcome(block)
             ELSE successorOutcome(block, validated, d)
    IN  [id |-> block.id,
         dice |-> block.dice,
         total |-> block.total,
         x |-> block.x,
         column |-> block.column,
         isGenesis |-> blockIsGenesis,
         predecessorId |-> o.predecessorId,
         isValid |-> o.isValid,
         errors |-> o.errors,
         requiredColors |-> getRequiredColors(block.dice)]

\* one iteration: the ValidatedBlock pushed for block
validateOne(block, validated, d) ==
    LET blockIsGenesis == isGenesisBlock(block)
        o == IF blockIsGenesis THEN genesisOutcome(block)
             ELSE successorOutcome(block, validated, d)
    IN  [id |-> block.id,
         dice |-> block.dice,
         total |-> block.total,
         x |-> block.x,
         column |-> block.column,
         isGenesis |-> blockIsGenesis,
         predecessorId |-> o.predecessorId,
         isValid |-> o.isValid,
         errors |-> o.errors,
         requiredColors |-> getRequiredColors(block.dice)]

RECURSIVE validateFrom(_, _, _)
\* the whole loop: the ValidatedBlock[] after the first k sorted blocks
validateFrom(sorted, k, d) ==
    IF k = 0 THEN <<>>
    ELSE LET before == validateFrom(sorted, k - 1, d)
         IN  Append(before, validateOne(sorted[k], before, d))

buildChain(bs, d) ==
    IF Len(bs) = 0 THEN <<>>
    ELSE LET sorted == sortByColumn(assignColumns(bs))
         IN  validateFrom(sorted, Len(sorted), d)

(***************************************************************************)
(* gameRules: findLongestChain, validateBlocks                             *)
(***************************************************************************)
\* the adjacency list built without the isValid test
childrenOfAnyValidity(bs, nodeId) ==
    Map(LAMBDA b : b.id,
        SelectSeq(bs, LAMBDA b : /\ b.predecessorId # Null
                                 /\ b.predecessorId = nodeId))

\* children.get(nodeId) || []: the ids of the valid blocks that recorded
\* nodeId as predecessor, in the order of the blocks array
childrenOf(bs, nodeId) ==
    Map(LAMBDA b : b.id,
        SelectSeq(bs, LAMBDA b : /\ b.predecessorId # Null
                                 /\ b.isValid
                                 /\ b.predecessorId = nodeId))

RECURSIVE findLongestFromNode(_, _)
RECURSIVE longestOfChildren(_, _, _, _)
\* the loop with >= for >: among equally long child chains the last one wins
longestOfChildrenLastTie(bs, childIds, k, longestChild) ==
    IF k > Len(childIds) THEN longestChild
    ELSE LET childChain == findLongestFromNode(bs, childIds[k])
         IN  longestOfChildren(bs, childIds, k + 1,
                 IF Len(childChain) >= Len(longestChild)
                 THEN childChain ELSE longestChild)

\* the loop over childIds from index k on, longestChild being the best so far
longestOfChildren(bs, childIds, k, longestChild) ==
    IF k > Len(childIds) THEN longestChild
    ELSE LET childChain == findLongestFromNode(bs, childIds[k])
         IN  longestOfChildren(bs, childIds, k + 1,
                 IF Len(childChain) > Len(longestChild)
                 THEN childChain ELSE longestChild)

findLongestFromNode(bs, nodeId) ==
    LET childIds == childrenOf(bs, nodeId)
    IN  IF Len(childIds) = 0 THEN <<nodeId>>
        ELSE <<nodeId>> \o longestOfChildren(bs, childIds, 1, <<>>)

\* blocks.find(b => b.isGenesis), as an index; 0 when there is none
firstGenesisOf(bs) ==
    IF \E i \in 1..Len(bs) : bs[i].isGenesis
    THEN CHOOSE i \in 1..Len(bs) :
             /\ bs[i].isGenesis
             /\ \A j \in 1..(i - 1) : ~bs[j].isGenesis
    ELSE 0

\* the search started at the first block, genesis or not
findLongestChainFromFirst(bs) ==
    IF Len(bs) = 0 THEN <<>>
    ELSE findLongestFromNode(bs, bs[1].id)

findLongestChain(bs) ==
    IF Len(bs) = 0 THEN <<>>
    ELSE IF firstGenesisOf(bs) = 0 THEN <<>>
    ELSE findLongestFromNode(bs, bs[firstGenesisOf(bs)].id)

\* the result listing only the valid blocks
assembleResultValidOnly(validated, d) ==
    [blocks |-> SelectSeq(validated, LAMBDA b : b.isValid),
     longestChain |-> findLongestChain(validated),
     totalBlocks |-> Len(validated),
     validBlocks |-> Len(SelectSeq(validated, LAMBDA b : b.isValid)),
     invalidBlocks |-> Len(SelectSeq(validated, LAMBDA b : ~b.isValid)),
     difficulty |-> d]

\* the ValidationResult assembled from the validated blocks
assembleResult(validated, d) ==
    [blocks |-> validated,
     longestChain |-> findLongestChain(validated),
     totalBlocks |-> Len(validated),
     validBlocks |-> Len(SelectSeq(validated, LAMBDA b : b.isValid)),
     invalidBlocks |-> Len(SelectSeq(validated, LAMBDA b : ~b.isValid)),
     difficulty |-> d]

validateBlocks(bs, d) == assembleResult(buildChain(bs, d), d)

(***************************************************************************)
(* The inputs validateBlocks is run on.  A block comes out of               *)
(* groupDiceIntoBlocks: id "block-k", total the sum of its dice's pips,     *)
(* column 0; position.x and the dice are what the camera saw.               *)
(***************************************************************************)
BlockIds ==
    <<"block-0", "block-1", "block-2", "block-3", "block-4", "block-5">>

\* the dice of a tray: colors[i] showing pips[i], each width pixels wide
DiceOf(colors, pips, width) ==
    [i \in 1..Len(colors) |->
        [color |-> colors[i], pips |-> pips[i], width |-> width]]

\* the canonical genesis tray: every die shows the value of its color
TrayGenesis == DiceOf(GENESIS_PATTERN, GENESIS_VALUES, 20)

\* a genesis tray laid out in another order with miscounted pips: total 27,
\* requires nine yellow dice
TrayGenesisThrees ==
    DiceOf(<<"green", "yellow", "orange", "red", "green", "yellow",
             "orange", "red", "green">>,
           <<3, 3, 3, 3, 3, 3, 3, 3, 3>>, 20)

\* nine yellow dice, total 24: requires red, orange and seven yellow
TrayYellow ==
    DiceOf(<<"yellow", "yellow", "yellow", "yellow", "yellow", "yellow",
             "yellow", "yellow", "yellow">>,
           <<1, 2, 3, 3, 3, 3, 3, 3, 3>>, 20)

\* seven yellow, orange, red, on larger dice, total 25
TrayMixed ==
    DiceOf(<<"yellow", "yellow", "yellow", "yellow", "yellow", "yellow",
             "yellow", "orange", "red">>,
           <<3, 3, 3, 3, 3, 3, 3, 3, 1>>, 24)

Trays == {TrayGenesis, TrayGenesisThrees, TrayYellow, TrayMixed}

\* centre x of a tray in the image
Positions == {0, 50, 180}

Difficulties == {24, 25}

DetectedBlockAt(k, dice, x) ==
    [id |-> BlockIds[k],
     dice |-> dice,
     total |-> SumSeq(Map(diePips, dice)),
     x |-> x,
     column |-> 0]

\* every block list of length n over the trays and positions
BlockLists(n) ==
    {[k \in 1..n |-> DetectedBlockAt(k, f[k][1], f[k][2])] :
        f \in [1..n -> Trays \X Positions]}

(***************************************************************************)
(* validateBlocks, step by step                                            *)
(***************************************************************************)
\* no detection in progress
DetectorIdle ==
    /\ detected = <<>>
    /\ debugCandidates = <<>>
    /\ filteredDice = <<>>

\* no review open
ReviewIdle ==
    /\ editedBlocks = <<>>
    /\ selectedBlockIndex = 0
    /\ selectedDieIndex = 0
    /\ edits = 0

\* the App as mounted, before OpenCV has loaded
AppIdle ==
    /\ screen = "home"
    /\ cvReady = FALSE
    /\ capturedImage = Null
    /\ detectedBlocks = <<>>
    /\ shownResult = <<>>
    /\ error = Null
    /\ calibration = [isCalibrated |-> FALSE]

\* no grouping in progress
GrouperIdle ==
    /\ diceArg = <<>>
    /\ sortedDice = <<>>
    /\ used = {}
    /\ groupI = 0
    /\ cluster = <<>>
    /\ groupBlocks = <<>>

Init ==
    /\ \E n \in 0..MaxBlocks : blocks \in BlockLists(n)
    /\ difficulty \in Difficulties
    /\ pc = "start"
    /\ sortedBlocks = <<>>
    /\ validatedBlocks = <<>>
    /\ validationResult = Null
    /\ blockA = Null
    /\ blockB = Null
    /\ swaps = 0
    /\ lastResult = NoResult
    /\ DetectorIdle
    /\ GrouperIdle
    /\ ReviewIdle
    /\ AppIdle

\* buildChain up to the loop: the early return, assignColumns, the sort
StartBuildChain ==
    /\ pc = "start"
    /\ IF Len(blocks) = 0
       THEN /\ sortedBlocks' = <<>>
            /\ blocks' = blocks
            /\ pc' = "built"
       ELSE /\ sortedBlocks' = sortByColumn(assignColumns(blocks))
            /\ blocks' = assignColumnsArgument(blocks)
            /\ pc' = "loop"
    /\ validatedBlocks' = <<>>
    /\ UNCHANGED <<difficulty, validationResult, pairVars, detectVars, groupVars,
                   reviewVars, appVars>>

\* one iteration of the loop over sortedBlocks
ValidateBlock ==
    /\ pc = "loop"
    /\ LET k == Len(validatedBlocks) + 1
       IN  /\ validatedBlocks' =
                  Append(validatedBlocks,
                         validateOne(sortedBlocks[k], validatedBlocks,
                                     difficulty))
           /\ pc' = IF k = Len(sortedBlocks) THEN "built" ELSE "loop"
    /\ UNCHANGED <<blocks, difficulty, sortedBlocks, validationResult,
                   pairVars, detectVars, groupVars,
                   reviewVars, appVars>>

\* validateBlocks after buildChain: findLongestChain and the counts
FinishValidate ==
    /\ pc = "built"
    /\ validationResult' = assembleResult(validatedBlocks, difficulty)
    /\ pc' = "done"
    /\ UNCHANGED <<blocks, difficulty, sortedBlocks, validatedBlocks,
                   pairVars, detectVars, groupVars,
                   reviewVars, appVars>>

Next == StartBuildChain \/ ValidateBlock \/ FinishValidate

Spec == Init /\ [][Next]_vars

(***************************************************************************)
(* Vocabulary of the properties.                                           *)
(***************************************************************************)
\* the multiset of a color sequence: how often each color occurs
ColorBag(colors) ==
    [c \in Colors |-> Cardinality({i \in 1..Len(colors) : colors[i] = c})]

ColorsOfBlock(b) == Map(dieColor, b.dice)

RequiredBag(b) == ColorBag(Map(LAMBDA d : VALUE_TO_COLOR(d.pips), b.dice))

Done == pc = "done"

ResultBlocks == validationResult.blocks

ResultIndex == 1..Len(ResultBlocks)

Chain == validationResult.longestChain

\* the blocks of the result carrying the id
BlocksWithId(id) == {i \in ResultIndex : ResultBlocks[i].id = id}

\* C1 (as stated): a block in column 1 whose colors are the required colors of
\* the genesis block alone in column 0, with total <= difficulty, is valid and
\* links to that genesis block.
SuccessorOfGenesisAccepted ==
    Done =>
        \A g, b \in ResultIndex :
            LET G == ResultBlocks[g]
                B == ResultBlocks[b]
            IN  (/\ G.isGenesis
                 /\ G.column = 0
                 /\ \A o \in ResultIndex : ResultBlocks[o].column = 0 => o = g
                 /\ B.column = 1
                 /\ ColorBag(ColorsOfBlock(B)) = RequiredBag(G)
                 /\ B.total <= difficulty)
                => (B.isValid /\ B.predecessorId = G.id)

\* C2: a recorded predecessorId names a valid block of the result in column
\* c-1 (c > 0) whose required colors are, as a multiset, the block's colors.
PredecessorLinkSound ==
    Done =>
        \A b \in ResultIndex :
            LET B == ResultBlocks[b] IN
            B.predecessorId # Null =>
                /\ B.column > 0
                /\ BlocksWithId(B.predecessorId) # {}
                /\ \A p \in BlocksWithId(B.predecessorId) :
                       /\ ResultBlocks[p].isValid
                       /\ ResultBlocks[p].column = B.column - 1
                       /\ RequiredBag(ResultBlocks[p])
                              = ColorBag(ColorsOfBlock(B))

PredecessorLinkWitness ==
    /\ Done
    /\ \E b \in ResultIndex :
           /\ ResultBlocks[b].predecessorId # Null
           /\ ResultBlocks[b].column = 2

\* a valid block of column c-1 whose required colors are B's colors
HasMatchingValidPredecessor(B) ==
    \E p \in ResultIndex :
        /\ ResultBlocks[p].isValid
        /\ ResultBlocks[p].column = B.column - 1
        /\ RequiredBag(ResultBlocks[p]) = ColorBag(ColorsOfBlock(B))

\* C3: a non-genesis block with a matching valid predecessor and total =
\* difficulty is valid; a non-genesis block with total >= difficulty + 1 is
\* invalid and carries "Total <total> exceeds difficulty <difficulty>".
DifficultyBoundary ==
    Done =>
        \A b \in ResultIndex :
            LET B == ResultBlocks[b] IN
            ~B.isGenesis =>
                /\ (HasMatchingValidPredecessor(B) /\ B.total = difficulty)
                       => B.isValid
                /\ B.total >= difficulty + 1 =>
                       /\ ~B.isValid
                       /\ \E e \in 1..Len(B.errors) :
                              B.errors[e] = ErrExceeds(B.total, difficulty)

DifficultyBoundaryWitness ==
    /\ Done
    /\ \E b, c \in ResultIndex :
           /\ ~ResultBlocks[b].isGenesis
           /\ HasMatchingValidPredecessor(ResultBlocks[b])
           /\ ResultBlocks[b].total = difficulty
           /\ ResultBlocks[b].isValid
           /\ ~ResultBlocks[c].isGenesis
           /\ HasMatchingValidPredecessor(ResultBlocks[c])
           /\ ResultBlocks[c].total = difficulty + 1
           /\ ~ResultBlocks[c].isValid

\* C6 (as stated): no block gets a column below 0 and every block that is
\* genesis has column 0.
ColumnMonotonicity ==
    Done =>
        \A b \in ResultIndex :
            /\ ResultBlocks[b].column >= 0
            /\ ResultBlocks[b].isGenesis => ResultBlocks[b].column = 0

\* the block of the result named by a longestChain entry
ChainBlock(k) == ResultBlocks[CHOOSE i \in ResultIndex :
                                  ResultBlocks[i].id = Chain[k]]

\* C7 (as stated): every longestChain id names a block of the result that is
\* valid, except possibly the first; no invalid non-genesis block and no block
\* whose total exceeds difficulty appears in longestChain.
LongestChainContainment ==
    Done =>
        \A k \in 1..Len(Chain) :
            /\ BlocksWithId(Chain[k]) # {}
            /\ k > 1 => ChainBlock(k).isValid
            /\ ~ChainBlock(k).isGenesis => ChainBlock(k).isValid
            /\ ChainBlock(k).total <= difficulty

\* C7 (amended): as above, but only non-genesis blocks of longestChain are
\* bound by the difficulty; the genesis block heads the chain whatever its
\* total.
LongestChainContainmentNonGenesis ==
    Done =>
        \A k \in 1..Len(Chain) :
            /\ BlocksWithId(Chain[k]) # {}
            /\ k > 1 => ChainBlock(k).isValid
            /\ ~ChainBlock(k).isGenesis =>
                   /\ ChainBlock(k).isValid
                   /\ ChainBlock(k).total <= difficulty

\* a chain with a link, next to a block that found its predecessor but is
\* over the difficulty and so stays out of the chain
LongestChainContainmentWitness ==
    /\ Done
    /\ Len(Chain) >= 2
    /\ \E b \in ResultIndex :
           /\ ResultBlocks[b].predecessorId # Null
           /\ ~ResultBlocks[b].isValid
           /\ ResultBlocks[b].total > difficulty
           /\ \A k \in 1..Len(Chain) : Chain[k] # ResultBlocks[b].id

\* C8: longestChain is empty iff no validated block is genesis; otherwise it
\* starts with the id of the genesis block (the first one found), and is just
\* that id when no valid block links to it.
LongestChainStartsAtGenesis ==
    Done =>
        /\ (Chain = <<>>) <=> (\A b \in ResultIndex : ~ResultBlocks[b].isGenesis)
        /\ Chain # <<>> =>
               LET g == CHOOSE i \in ResultIndex :
                            /\ ResultBlocks[i].isGenesis
                            /\ \A j \in 1..(i - 1) : ~ResultBlocks[j].isGenesis
               IN  /\ Chain[1] = ResultBlocks[g].id
                   /\ (\A b \in ResultIndex :
                           ~(/\ ResultBlocks[b].isValid
                             /\ ResultBlocks[b].predecessorId
                                    = ResultBlocks[g].id))
                          => Chain = <<ResultBlocks[g].id>>

\* a genesis block without valid children among other blocks
LongestChainStartsAtGenesisWitness ==
    /\ Done
    /\ Len(ResultBlocks) >= 2
    /\ ~ResultBlocks[1].isGenesis
    /\ Len(Chain) = 1

\* the largest column of the result blocks with the indices in S
MaxColumn(S) ==
    CHOOSE m \in {ResultBlocks[i].column : i \in S} :
        \A i \in S : ResultBlocks[i].column <= m

ValidIndices == {i \in ResultIndex : ResultBlocks[i].isValid}

\* C9 (as stated): the last block of a non-empty longestChain sits in the
\* largest column of any valid block.
LongestChainReachesDeepestValid ==
    (Done /\ Chain # <<>>) =>
        ChainBlock(Len(Chain)).column = MaxColumn(ValidIndices)

Recolored(dice, i, c) == [dice EXCEPT ![i].color = c]

\* dice without die i
Dropped(dice, i) ==
    [k \in 1..(Len(dice) - 1) |-> IF k < i THEN dice[k] ELSE dice[k + 1]]

\* dice with one more die of color c
Extended(dice, c) ==
    Append(dice, [color |-> c, pips |-> 1, width |-> dice[1].width])

EditedTrays ==
    UNION {
        {Recolored(t, i, c) : i \in 1..Len(t), c \in Colors}
        \cup {Dropped(t, i) : i \in 1..Len(t)}
        \cup {Extended(t, c) : c \in Colors}
        : t \in Trays}

\* the first die moved to the end
Rotated(dice) == Append(Tail(dice), dice[1])

\* the first two dice exchanged
Swapped(dice) == <<dice[2], dice[1]>> \o Tail(Tail(dice))

InitPairs ==
    /\ \E t \in Trays : blockA = DetectedBlockAt(1, t, 0)
    /\ \E t \in EditedTrays : blockB = DetectedBlockAt(2, t, 50)
    /\ swaps = 0
    /\ lastResult = NoResult
    /\ blocks = <<>>
    /\ difficulty = 25
    /\ pc = "pairs"
    /\ sortedBlocks = <<>>
    /\ validatedBlocks = <<>>
    /\ validationResult = Null
    /\ DetectorIdle
    /\ GrouperIdle
    /\ ReviewIdle
    /\ AppIdle

CallIsGenesisBlock ==
    /\ pc = "pairs"
    /\ lastResult' = [op |-> "isGenesisBlock",
                      value |-> isGenesisBlock(blockB)]
    /\ UNCHANGED <<blockA, blockB, swaps, chainVars, detectVars, groupVars,
                   reviewVars, appVars>>

CallCanBePredecessor ==
    /\ pc = "pairs"
    /\ lastResult' = [op |-> "canBePredecessor",
                      value |-> canBePredecessor(blockA, blockB)]
    /\ UNCHANGED <<blockA, blockB, swaps, chainVars, detectVars, groupVars,
                   reviewVars, appVars>>

ReorderA ==
    /\ pc = "pairs"
    /\ swaps < MaxSwaps
    /\ \/ blockA' = [blockA EXCEPT !.dice = Rotated(blockA.dice)]
       \/ blockA' = [blockA EXCEPT !.dice = Swapped(blockA.dice)]
    /\ swaps' = swaps + 1
    /\ UNCHANGED <<blockB, lastResult, chainVars, detectVars, groupVars,
                   reviewVars, appVars>>

ReorderB ==
    /\ pc = "pairs"
    /\ swaps < MaxSwaps
    /\ \/ blockB' = [blockB EXCEPT !.dice = Rotated(blockB.dice)]
       \/ blockB' = [blockB EXCEPT !.dice = Swapped(blockB.dice)]
    /\ swaps' = swaps + 1
    /\ UNCHANGED <<blockA, lastResult, chainVars, detectVars, groupVars,
                   reviewVars, appVars>>

NextPairs ==
    CallIsGenesisBlock \/ CallCanBePredecessor \/ ReorderA \/ ReorderB

SpecPairs == InitPairs /\ [][NextPairs]_vars

\* {red x2, orange x2, yellow x2, green x3}
GenesisBag ==
    [c \in Colors |->
        CASE c = "red" -> 2
          [] c = "orange" -> 2
          [] c = "yellow" -> 2
          [] c = "green" -> 3
          [] OTHER -> 0]

\* C4: isGenesisBlock(block) is true iff the multiset of the block's colors is
\* {red x2, orange x2, yellow x2, green x3}, in whatever order the dice come,
\* and false for any other count of a color or number of dice.
GenesisIffPatternBag ==
    /\ isGenesisBlock(blockB) = (ColorBag(ColorsOfBlock(blockB)) = GenesisBag)
    /\ isGenesisBlock(blockA) = (ColorBag(ColorsOfBlock(blockA)) = GenesisBag)
    /\ lastResult.op = "isGenesisBlock" =>
           lastResult.value = (ColorBag(ColorsOfBlock(blockB)) = GenesisBag)

\* a genesis tray recognised with its dice out of the pattern's order
GenesisIffPatternBagWitness ==
    /\ lastResult = [op |-> "isGenesisBlock", value |-> TRUE]
    /\ swaps > 0
    /\ ColorsOfBlock(blockB) # GENESIS_PATTERN
    /\ ColorsOfBlock(blockB) # ColorsOfBlock(DetectedBlockAt(2, TrayGenesisThrees, 50))

\* C5: canBePredecessor(A, B) is true exactly when the multiset of
\* requiredColors(A) equals the multiset of B's colors, and reordering A.dice
\* or B.dice after a call does not change what the call returned.
PredecessorDependsOnBags ==
    /\ canBePredecessor(blockA, blockB)
           = (RequiredBag(blockA) = ColorBag(ColorsOfBlock(blockB)))
    /\ lastResult.op = "canBePredecessor" =>
           lastResult.value = canBePredecessor(blockA, blockB)

\* a call that returned true, then dice reordered, with B's colors in another
\* order than A's required colors
PredecessorDependsOnBagsWitness ==
    /\ lastResult = [op |-> "canBePredecessor", value |-> TRUE]
    /\ swaps > 0
    /\ getRequiredColors(blockA.dice) # ColorsOfBlock(blockB)

(***************************************************************************)
(* Properties of the result: aggregation, diagnostics, order, search       *)
(***************************************************************************)
\* C11: the result lists every input block exactly once, invalid ones too;
\* totalBlocks is the number of input blocks, validBlocks counts the blocks
\* with isValid, validBlocks + invalidBlocks = totalBlocks, and difficulty is
\* the argument.
ResultAggregation ==
    Done =>
        /\ Len(ResultBlocks) = Len(blocks)
        /\ \A i \in 1..Len(blocks) :
               Cardinality({r \in ResultIndex :
                   /\ ResultBlocks[r].id = blocks[i].id
                   /\ ResultBlocks[r].dice = blocks[i].dice
                   /\ ResultBlocks[r].total = blocks[i].total
                   /\ ResultBlocks[r].x = blocks[i].x}) = 1
        /\ validationResult.totalBlocks = Len(blocks)
        /\ validationResult.validBlocks = Cardinality(ValidIndices)
        /\ validationResult.validBlocks + validationResult.invalidBlocks
               = validationResult.totalBlocks
        /\ validationResult.difficulty = difficulty

\* a result with a valid and an invalid block
ResultAggregationWitness ==
    /\ Done
    /\ validationResult.validBlocks >= 1
    /\ validationResult.invalidBlocks >= 1
    /\ \E r \in ResultIndex : ~ResultBlocks[r].isValid

\* "Genesis total <t> doesn't match expected 24", written out
AdvisoryGenesisTotal(t) ==
    [kind |-> "Genesis total <a> doesn't match expected <b>",
     a |-> t, b |-> 24, required |-> <<>>, got |-> <<>>]

\* C12: a genesis block is invalid iff its column is not 0; in column 0 with a
\* total other than 24 it stays valid and carries only the advisory
\* "Genesis total <t> doesn't match expected 24".
GenesisAsymmetry ==
    Done =>
        \A r \in ResultIndex :
            LET B == ResultBlocks[r] IN
            B.isGenesis =>
                /\ ~B.isValid <=> B.column # 0
                /\ (B.column = 0 /\ B.total # 24) =>
                       /\ B.isValid
                       /\ B.errors = <<AdvisoryGenesisTotal(B.total)>>
                /\ (B.column = 0 /\ B.total = 24) => B.errors = <<>>

\* a genesis block in column 0 with a miscounted total, next to a genesis
\* block outside column 0
GenesisAsymmetryWitness ==
    /\ Done
    /\ \E r, q \in ResultIndex :
           /\ ResultBlocks[r].isGenesis
           /\ ResultBlocks[r].column = 0
           /\ ResultBlocks[r].total = 27
           /\ ResultBlocks[r].isValid
           /\ ResultBlocks[q].isGenesis
           /\ ResultBlocks[q].column # 0
           /\ ~ResultBlocks[q].isValid

\* the valid blocks of the column before B's
ValidInPreviousColumn(B) ==
    {p \in ResultIndex : /\ ResultBlocks[p].isValid
                         /\ ResultBlocks[p].column = B.column - 1}

HasError(B, kind) == \E e \in 1..Len(B.errors) : B.errors[e].kind = kind

\* C13: a non-genesis block without a matching valid block in column c-1 is
\* invalid with predecessorId = none; with no valid block in column c-1 at all
\* the diagnostic names column c-1, otherwise it says the colors match no
\* predecessor, and "Required: ..., Got: ..." is added iff there was exactly
\* one candidate.
MissingPredecessor ==
    Done =>
        \A r \in ResultIndex :
            LET B == ResultBlocks[r]
                cands == ValidInPreviousColumn(B)
            IN  (~B.isGenesis /\ ~HasMatchingValidPredecessor(B)) =>
                    /\ ~B.isValid
                    /\ B.predecessorId = Null
                    /\ cands = {} =>
                           /\ \E e \in 1..Len(B.errors) :
                                  /\ B.errors[e].kind =
                                       "No valid blocks in column <a> to build on"
                                  /\ B.errors[e].a = B.column - 1
                           /\ ~HasError(B, "Dice colors do not match any predecessor's values")
                    /\ cands # {} =>
                           /\ HasError(B, "Dice colors do not match any predecessor's values")
                           /\ ~HasError(B, "No valid blocks in column <a> to build on")
                    /\ HasError(B, "Required: <required>, Got: <got>")
                           <=> Cardinality(cands) = 1

\* a block rejected against two candidates, hence without "Required: ..."
MissingPredecessorWitness ==
    /\ Done
    /\ \E r \in ResultIndex :
           /\ ~ResultBlocks[r].isGenesis
           /\ ~HasMatchingValidPredecessor(ResultBlocks[r])
           /\ Cardinality(ValidInPreviousColumn(ResultBlocks[r])) = 2
           /\ ~HasError(ResultBlocks[r], "Required: <required>, Got: <got>")

\* where the block with this id stood in the input list
InputIndex(id) == CHOOSE i \in 1..Len(blocks) : blocks[i].id = id

\* the validated blocks, before block i, that could be its predecessor
MatchingBefore(i) ==
    {p \in 1..(i - 1) :
        /\ validatedBlocks[p].isValid
        /\ validatedBlocks[p].column = validatedBlocks[i].column - 1
        /\ RequiredBag(validatedBlocks[p])
               = ColorBag(ColorsOfBlock(validatedBlocks[i]))}

IndexOfId(id) == CHOOSE i \in ResultIndex : ResultBlocks[i].id = id

\* c is a child of p: a valid block whose predecessorId is p's id
Edge(p, c) ==
    /\ ResultBlocks[c].isValid
    /\ ResultBlocks[c].predecessorId = ResultBlocks[p].id

\* every path of the children graph that starts at block i
PathsFrom(i) ==
    {s \in UNION {[1..m -> ResultIndex] : m \in 1..Len(ResultBlocks)} :
        /\ s[1] = i
        /\ \A k \in 1..(Len(s) - 1) : Edge(s[k], s[k + 1])}

\* number of blocks on the longest path starting at block i
Height(i) ==
    CHOOSE h \in 1..Len(ResultBlocks) :
        /\ \E s \in PathsFrom(i) : Len(s) = h
        /\ \A s \in PathsFrom(i) : Len(s) <= h

StepsLeft ==
    CASE pc = "start" -> Len(blocks) + 2
      [] pc = "loop" -> Len(sortedBlocks) - Len(validatedBlocks) + 1
      [] pc = "built" -> 1
      [] OTHER -> 0

\* C19: every predecessor link goes to an already validated block in a
\* strictly smaller column, so the links are acyclic; the loop always has a
\* next block until it ends, every step brings validateBlocks closer to its
\* result, and the chain returned visits no block twice.
LinksAcyclicAndReturns ==
    /\ [](/\ \A i \in 1..Len(validatedBlocks) :
                 validatedBlocks[i].predecessorId # Null =>
                     \E p \in 1..(i - 1) :
                         /\ validatedBlocks[p].id
                                = validatedBlocks[i].predecessorId
                         /\ validatedBlocks[p].column
                                < validatedBlocks[i].column
          /\ \A i, j \in 1..Len(blocks) : blocks[i].id = blocks[j].id => i = j
          /\ pc = "loop" => Len(validatedBlocks) < Len(sortedBlocks)
          /\ Done =>
                 /\ Len(Chain) <= Len(blocks)
                 /\ \A i, j \in 1..Len(Chain) : Chain[i] = Chain[j] => i = j)
    /\ [][StepsLeft' < StepsLeft /\ StepsLeft' >= 0]_vars

\* a run that returned a chain over three columns
LinksAcyclicAndReturnsWitness ==
    /\ Done
    /\ Len(Chain) = 3
    /\ \A k \in 1..3 : ChainBlock(k).column = k - 1

(***************************************************************************)
(* vision/diceDetector.ts: detection of dice in one image region.  Areas   *)
(* and lengths are in pixels; ratios are kept as exact fractions.          *)
(***************************************************************************)
\* region.cols * region.rows of the image
imageArea == 100 * 100

\* area >= dieArea * MIN_PIP_AREA_RATIO (0.003) && area <= dieArea *
\* MAX_PIP_AREA_RATIO (0.20)
pipAreaInRange(area, dieArea) ==
    /\ 1000 * area >= 3 * dieArea
    /\ 5 * area <= dieArea

\* aspectRatio > 0.5 && aspectRatio < 2.0, aspectRatio = width / height
pipAspectRound(contour) ==
    /\ 2 * contour.width > contour.height
    /\ contour.width < 2 * contour.height

\* the loop of countPips: the contours that pass both filters
pipCountOf(pipContours, dieArea) ==
    Len(SelectSeq(pipContours,
                  LAMBDA c : pipAreaInRange(c.area, dieArea)
                             /\ pipAspectRound(c)))

MathMin(a, b) == IF a <= b THEN a ELSE b

\* countPips(dieMat): Math.min(6, pipCount)
countPips(dieMat) ==
    MathMin(6, pipCountOf(dieMat.pipContours, dieMat.rows * dieMat.cols))

\* x2 < x1 || y2 < y1 ? 0 : intersectionArea
intersectionArea(a, b) ==
    LET x1 == MathMax(a.x, b.x)
        y1 == MathMax(a.y, b.y)
        x2 == MathMin(a.x + a.width, b.x + b.width)
        y2 == MathMin(a.y + a.height, b.y + b.height)
    IN  IF x2 < x1 \/ y2 < y1 THEN 0 ELSE (x2 - x1) * (y2 - y1)

\* calculateOverlap(a, b) as the fraction intersectionArea / unionArea
calculateOverlap(a, b) ==
    [num |-> intersectionArea(a, b),
     den |-> a.width * a.height + b.width * b.height
                 - intersectionArea(a, b)]

\* overlap > 0.5
overlapsMuch(a, b) ==
    LET o == calculateOverlap(a, b) IN 2 * o.num > o.den

\* die.confidence > existing.confidence, confidences being fractions
moreConfident(die, existing) ==
    die.confidence.num * existing.confidence.den
        > existing.confidence.num * die.confidence.den

\* index of the first element of filtered that die overlaps by more than
\* half, 0 if there is none
firstOverlapping(filtered, die) ==
    IF \E k \in 1..Len(filtered) : overlapsMuch(die.bounds, filtered[k].bounds)
    THEN CHOOSE k \in 1..Len(filtered) :
             /\ overlapsMuch(die.bounds, filtered[k].bounds)
             /\ \A m \in 1..(k - 1) :
                    ~overlapsMuch(die.bounds, filtered[m].bounds)
    ELSE 0

\* one iteration of the outer loop of removeDuplicateDetections
dedupStep(filtered, die) ==
    LET idx == firstOverlapping(filtered, die)
    IN  IF idx = 0 THEN Append(filtered, die)
        ELSE IF moreConfident(die, filtered[idx])
             THEN [filtered EXCEPT ![idx] = die]
             ELSE filtered

RECURSIVE dedupFrom(_, _, _)
\* the outer loop from index k on
dedupFrom(ds, k, filtered) ==
    IF k > Len(ds) THEN filtered
    ELSE dedupFrom(ds, k + 1, dedupStep(filtered, ds[k]))

\* removeDuplicateDetections(dice)
removeDuplicateDetections(ds) == dedupFrom(ds, 1, <<>>)
\* area < minArea, minArea = imageArea * MIN_DIE_AREA_RATIO (0.0005)
tooSmall(area) == 10000 * area < 5 * imageArea

\* area > maxArea, maxArea = imageArea * MAX_DIE_AREA_RATIO (0.15)
tooLarge(area) == 100 * area > 15 * imageArea

\* aspectRatio <= 0.6 || aspectRatio >= 1.7, aspectRatio = width / height
badAspect(rect) ==
    \/ 10 * rect.width <= 6 * rect.height
    \/ 10 * rect.width >= 17 * rect.height

rejectionReasonOf(contour) ==
    IF tooSmall(contour.area) THEN "too_small"
    ELSE IF tooLarge(contour.area) THEN "too_large"
    ELSE IF badAspect(contour.rect) THEN "aspect_ratio"
    ELSE "none"

\* the DetectedDie pushed for an accepted contour
detectedDieOf(contour) ==
    [color |-> contour.color,
     pips |-> countPips([rows |-> contour.rect.height,
                         cols |-> contour.rect.width,
                         pipContours |-> contour.pipContours]),
     confidence |-> [num |-> contour.area,
                     den |-> contour.rect.width * contour.rect.height],
     bounds |-> contour.rect]

\* the DebugCandidate pushed for every contour
candidateOf(contour) ==
    [color |-> contour.color,
     bounds |-> contour.rect,
     area |-> contour.area,
     accepted |-> rejectionReasonOf(contour) = "none",
     rejectionReason |-> rejectionReasonOf(contour)]

\* the final loop over candidates: accepted ones whose bounds.x and bounds.y
\* are those of no surviving die become rejected as 'duplicate'
markDuplicates(cands, filtered) ==
    [k \in 1..Len(cands) |->
        IF /\ cands[k].accepted
           /\ ~\E m \in 1..Len(filtered) :
                  /\ filtered[m].bounds.x = cands[k].bounds.x
                  /\ filtered[m].bounds.y = cands[k].bounds.y
        THEN [cands[k] EXCEPT !.accepted = FALSE,
                              !.rejectionReason = "duplicate"]
        ELSE cands[k]]

(***************************************************************************)
(* Contours an image can show: dice of 20 x 20 pixels shifted against      *)
(* each other, and regions the area and shape filters reject.              *)
(***************************************************************************)
PipContour(area, width, height) ==
    [area |-> area, width |-> width, height |-> height]

RoundPip == PipContour(10, 4, 4)

SpeckPip == PipContour(1, 1, 1)

LongPip == PipContour(10, 8, 4)

Rect(x, y, width, height) ==
    [x |-> x, y |-> y, width |-> width, height |-> height]

DieFaces ==
    {[color |-> "red", pipContours |-> <<>>],
     [color |-> "orange",
      pipContours |-> <<RoundPip, SpeckPip, RoundPip, LongPip, RoundPip>>],
     [color |-> "yellow",
      pipContours |-> <<RoundPip, RoundPip, RoundPip, RoundPip, RoundPip,
                        RoundPip, RoundPip>>]}

DieContours ==
    {[color |-> f.color, area |-> a, rect |-> Rect(x, 0, 20, 20),
      pipContours |-> f.pipContours] :
        f \in DieFaces, a \in {300, 320, 360}, x \in {0, 5, 10}}

RejectedContours ==
    {[color |-> "red", area |-> 4, rect |-> Rect(0, 0, 2, 2),
      pipContours |-> <<>>],
     [color |-> "red", area |-> 2000, rect |-> Rect(0, 0, 50, 50),
      pipContours |-> <<>>],
     [color |-> "red", area |-> 600, rect |-> Rect(0, 0, 40, 20),
      pipContours |-> <<>>]}

Contours == DieContours \cup RejectedContours

(***************************************************************************)
(* SpecDetect: detectDiceWithDebug on one image, contour by contour.       *)
(***************************************************************************)
InitDetect ==
    /\ pc = "detect"
    /\ DetectorIdle
    /\ GrouperIdle
    /\ ReviewIdle
    /\ AppIdle
    /\ blocks = <<>>
    /\ difficulty = 25
    /\ sortedBlocks = <<>>
    /\ validatedBlocks = <<>>
    /\ validationResult = Null
    /\ blockA = Null
    /\ blockB = Null
    /\ swaps = 0
    /\ lastResult = NoResult

\* one iteration of the loop over the contours of the image
DetectContour ==
    /\ pc = "detect"
    /\ Len(debugCandidates) < MaxContours
    /\ \E contour \in Contours :
           /\ detected' = IF rejectionReasonOf(contour) = "none"
                          THEN Append(detected, detectedDieOf(contour))
                          ELSE detected
           /\ debugCandidates' = Append(debugCandidates, candidateOf(contour))
    /\ UNCHANGED <<pc, filteredDice, validatorVars, pairVars, groupVars,
                   reviewVars, appVars>>

\* after the loops: removeDuplicateDetections and the marking of duplicates
FinishDetect ==
    /\ pc = "detect"
    /\ filteredDice' = removeDuplicateDetections(detected)
    /\ debugCandidates' =
           markDuplicates(debugCandidates, removeDuplicateDetections(detected))
    /\ pc' = "detected"
    /\ UNCHANGED <<detected, validatorVars, pairVars, groupVars,
                   reviewVars, appVars>>

NextDetect == DetectContour \/ FinishDetect

SpecDetect == InitDetect /\ [][NextDetect]_vars
\* every ordering of a list
Orderings(ds) ==
    {[k \in 1..Len(ds) |-> ds[f[k]]] :
        f \in {g \in [1..Len(ds) -> 1..Len(ds)] :
                  \A i, j \in 1..Len(ds) : g[i] = g[j] => i = j}}

Range(ds) == {ds[k] : k \in 1..Len(ds)}

DistinctConfidences(ds) ==
    \A i, j \in 1..Len(ds) :
        i # j => (moreConfident(ds[i], ds[j]) \/ moreConfident(ds[j], ds[i]))

\* C15 (as stated): for detections with pairwise distinct confidences the
\* set of survivors of removeDuplicateDetections is the same for every
\* ordering of the input.
DedupOrderIndependent ==
    (pc = "detected" /\ DistinctConfidences(detected)) =>
        \A other \in Orderings(detected) :
            Range(removeDuplicateDetections(other)) = Range(filteredDice)

\* C16 (as stated): every die observation produced has pips in 1..6, whatever
\* number of pip contours was found in its region, zero included.
DetectedPipsInRange ==
    /\ \A k \in 1..Len(detected) : detected[k].pips \in 1..6
    /\ \A k \in 1..Len(filteredDice) : filteredDice[k].pips \in 1..6
(***************************************************************************)
(* vision/diceDetector.ts: groupDiceIntoBlocks.  Indices are 1-based here, *)
(* 0-based in the source.                                                  *)
(***************************************************************************)
RECURSIVE InsertByX(_, _)
InsertByX(d, s) ==
    IF s = <<>> THEN <<d>>
    ELSE IF d.bounds.x < s[1].bounds.x THEN <<d>> \o s
    ELSE <<s[1]>> \o InsertByX(d, Tail(s))

RECURSIVE SortByXFrom(_, _)
SortByXFrom(s, k) ==
    IF k = 0 THEN <<>>
    ELSE InsertByX(s[k], SortByXFrom(s, k - 1))

\* [...dice].sort((a, b) => a.bounds.x - b.bounds.x)
sortByX(ds) == SortByXFrom(ds, Len(ds))

\* sum of width + height over the dice: avgDieSize = sizeSum / (2 * length)
sizeSum(ds) == SumSeq(Map(LAMBDA d : d.bounds.width + d.bounds.height, ds))

\* dist < clusterThreshold for dist = sqrt(dx^2 + dy^2) of the bounds.x and
\* bounds.y of the two dice and clusterThreshold = avgDieSize * 2.5 =
\* 5 * sizes / (4 * length), both sides squared
isNearby(dieJ, clusterDie, length, sizes) ==
    LET dx == dieJ.bounds.x - clusterDie.bounds.x
        dy == dieJ.bounds.y - clusterDie.bounds.y
    IN  (dx * dx + dy * dy) * 16 * length * length < 25 * sizes * sizes

RECURSIVE growCluster(_, _, _, _, _, _)
\* the loop over j from index j on: a die not yet used that is near some die
\* of the cluster joins it and is marked used
growCluster(length, sizes, sorted, j, members, usedNow) ==
    IF j > Len(sorted) THEN [cluster |-> members, used |-> usedNow]
    ELSE IF /\ j \notin usedNow
            /\ \E m \in 1..Len(members) :
                   isNearby(sorted[j], members[m], length, sizes)
         THEN growCluster(length, sizes, sorted, j + 1,
                          Append(members, sorted[j]), usedNow \cup {j})
         ELSE growCluster(length, sizes, sorted, j + 1, members, usedNow)

\* the cluster size test with its upper limit left out
acceptsClusterNoMax(members) == Len(members) >= 7

\* cluster.length >= 7 && cluster.length <= 11
acceptsCluster(members) == Len(members) >= 7 /\ Len(members) <= 11

\* the block with position taken as the mean of the bounds corners
blockOfClusterCornerPosition(members, count) ==
    [id |-> BlockIds[count + 1],
     dice |-> members,
     total |-> SumSeq(Map(diePips, members)),
     trayColor |-> "#888888",
     position |->
         [xNum |-> SumSeq(Map(LAMBDA d : 2 * d.bounds.x, members)),
          yNum |-> SumSeq(Map(LAMBDA d : 2 * d.bounds.y, members)),
          den |-> 2 * Len(members)],
     column |-> 0]

\* the DetectedBlock pushed for an accepted cluster when count blocks exist;
\* position is the mean of the dice centers, kept as fractions over den
blockOfCluster(members, count) ==
    [id |-> BlockIds[count + 1],
     dice |-> members,
     total |-> SumSeq(Map(diePips, members)),
     trayColor |-> "#888888",
     position |->
         [xNum |-> SumSeq(Map(LAMBDA d : 2 * d.bounds.x + d.bounds.width,
                              members)),
          yNum |-> SumSeq(Map(LAMBDA d : 2 * d.bounds.y + d.bounds.height,
                              members)),
          den |-> 2 * Len(members)],
     column |-> 0]

(***************************************************************************)
(* Scenes for the grouper: up to two trays whose dice of 20 x 20 pixels    *)
(* lie on a grid of 24 pixels, three dice per row, and stray dice.         *)
(***************************************************************************)
DieAt(x, y, pips) ==
    [color |-> VALUE_TO_COLOR(pips),
     pips |-> pips,
     confidence |-> [num |-> 9, den |-> 10],
     bounds |-> Rect(x, y, 20, 20)]

\* the first n dice of a tray whose top left die is at (x0, y0)
TrayDice(x0, y0, n) ==
    [k \in 1..n |-> DieAt(x0 + 24 * ((k - 1) % 3),
                          y0 + 24 * ((k - 1) \div 3),
                          ((k - 1) % 6) + 1)]

TraySizes == {0} \cup (6..MaxTrayDice)

\* dice outside the trays: one below the left tray, two far from everything
\* but near each other, one below and between the trays
StrayDice ==
    <<DieAt(-10, 90, 1), DieAt(230, 0, 2), DieAt(255, 0, 3),
      DieAt(90, 150, 4)>>

\* the stray dice picked by a set of indices, in index order
RECURSIVE StraysOf(_, _)
StraysOf(S, k) ==
    IF k > Len(StrayDice) THEN <<>>
    ELSE (IF k \in S THEN <<StrayDice[k]>> ELSE <<>>) \o StraysOf(S, k + 1)

Reverse(s) == [k \in 1..Len(s) |-> s[Len(s) + 1 - k]]

Scenes ==
    LET base == {TrayDice(0, 0, n1) \o TrayDice(130, 0, n2) \o StraysOf(S, 1) :
                    n1 \in TraySizes, n2 \in TraySizes,
                    S \in {T \in SUBSET (1..Len(StrayDice)) :
                              Cardinality(T) <= MaxStrays}}
    IN  base \cup {Reverse(sc) : sc \in base}

(***************************************************************************)
(* SpecGroup: groupDiceIntoBlocks, one outer loop iteration per step.      *)
(***************************************************************************)
InitGroup ==
    /\ pc = "group-start"
    /\ diceArg \in Scenes
    /\ sortedDice = <<>>
    /\ used = {}
    /\ groupI = 0
    /\ cluster = <<>>
    /\ groupBlocks = <<>>
    /\ DetectorIdle
    /\ ReviewIdle
    /\ AppIdle
    /\ blocks = <<>>
    /\ difficulty = 25
    /\ sortedBlocks = <<>>
    /\ validatedBlocks = <<>>
    /\ validationResult = Null
    /\ blockA = Null
    /\ blockB = Null
    /\ swaps = 0
    /\ lastResult = NoResult

\* the early return for no dice, else the sort before the loop
StartGroup ==
    /\ pc = "group-start"
    /\ IF Len(diceArg) = 0
       THEN /\ pc' = "grouped"
            /\ UNCHANGED <<sortedDice, groupI>>
       ELSE /\ sortedDice' = sortByX(diceArg)
            /\ groupI' = 1
            /\ pc' = "group-loop"
    /\ UNCHANGED <<diceArg, used, cluster, groupBlocks, validatorVars,
                   pairVars, detectVars,
                   reviewVars, appVars>>

\* if (used.has(i)) continue
SkipUsed ==
    /\ pc = "group-loop"
    /\ groupI <= Len(sortedDice)
    /\ groupI \in used
    /\ groupI' = groupI + 1
    /\ UNCHANGED <<pc, diceArg, sortedDice, used, cluster, groupBlocks,
                   validatorVars, pairVars, detectVars,
                   reviewVars, appVars>>

\* the body of the outer loop for an unused die: grow its cluster, push a
\* block if the size fits
ClusterFrom ==
    /\ pc = "group-loop"
    /\ groupI <= Len(sortedDice)
    /\ groupI \notin used
    /\ LET grown == growCluster(Len(diceArg), sizeSum(diceArg), sortedDice,
                                groupI + 1,
                                <<sortedDice[groupI]>>, used \cup {groupI})
       IN  /\ cluster' = grown.cluster
           /\ used' = grown.used
           /\ groupBlocks' =
                  IF acceptsCluster(grown.cluster)
                  THEN Append(groupBlocks,
                              blockOfCluster(grown.cluster, Len(groupBlocks)))
                  ELSE groupBlocks
    /\ groupI' = groupI + 1
    /\ UNCHANGED <<pc, diceArg, sortedDice, validatorVars, pairVars,
                   detectVars,
                   reviewVars, appVars>>

\* return blocks
FinishGroup ==
    /\ pc = "group-loop"
    /\ groupI > Len(sortedDice)
    /\ pc' = "grouped"
    /\ UNCHANGED <<diceArg, sortedDice, used, groupI, cluster, groupBlocks,
                   validatorVars, pairVars, detectVars,
                   reviewVars, appVars>>

NextGroup == StartGroup \/ SkipUsed \/ ClusterFrom \/ FinishGroup

SpecGroup == InitGroup /\ [][NextGroup]_vars

RECURSIVE groupFrom(_, _, _, _, _, _)
\* the outer loop of groupDiceIntoBlocks from index i on
groupFrom(length, sizes, sorted, i, usedNow, blocksNow) ==
    IF i > Len(sorted) THEN blocksNow
    ELSE IF i \in usedNow
         THEN groupFrom(length, sizes, sorted, i + 1, usedNow, blocksNow)
         ELSE LET grown == growCluster(length, sizes, sorted, i + 1,
                                       <<sorted[i]>>, usedNow \cup {i})
              IN  groupFrom(length, sizes, sorted, i + 1, grown.used,
                      IF acceptsCluster(grown.cluster)
                      THEN Append(blocksNow,
                                  blockOfCluster(grown.cluster, Len(blocksNow)))
                      ELSE blocksNow)

\* groupDiceIntoBlocks(dice)
groupDiceIntoBlocks(ds) ==
    IF Len(ds) = 0 THEN <<>>
    ELSE groupFrom(Len(ds), sizeSum(ds), sortByX(ds), 1, {}, <<>>)

\* C14: every block returned by groupDiceIntoBlocks has 7 to 11 dice, all of
\* them input dice, no die lies in two blocks (or twice in one), a completed
\* cluster becomes a block iff its size is in 7..11, and seven close dice
\* with two far-away dice give exactly one block, of the seven.
GroupedBlockSizes ==
    /\ \A b \in 1..Len(groupBlocks) :
           /\ Len(groupBlocks[b].dice) >= 7
           /\ Len(groupBlocks[b].dice) <= 11
           /\ Range(groupBlocks[b].dice) \subseteq Range(diceArg)
           /\ Cardinality(Range(groupBlocks[b].dice))
                  = Len(groupBlocks[b].dice)
           /\ \A c \in 1..Len(groupBlocks) :
                  b # c => Range(groupBlocks[b].dice)
                               \cap Range(groupBlocks[c].dice) = {}
    /\ cluster # <<>> =>
           ((Len(cluster) \in 7..11)
               <=> \E b \in 1..Len(groupBlocks) :
                       groupBlocks[b].dice = cluster)
    /\ (/\ pc = "grouped"
        /\ diceArg = TrayDice(0, 0, 7) \o <<StrayDice[2], StrayDice[3]>>) =>
           /\ Len(groupBlocks) = 1
           /\ Len(groupBlocks[1].dice) = 7
           /\ Range(groupBlocks[1].dice) = Range(TrayDice(0, 0, 7))

\* seven close dice and two far-away dice, grouped into one block of seven
\* after the cluster of the two was dropped
GroupedBlockSizesWitness ==
    /\ pc = "grouped"
    /\ diceArg = TrayDice(0, 0, 7) \o <<StrayDice[2], StrayDice[3]>>
    /\ Len(groupBlocks) = 1
    /\ Len(groupBlocks[1].dice) = 7
    /\ cluster = <<StrayDice[2], StrayDice[3]>>

\* center-to-center distance below clusterThreshold of the input dice, both
\* sides squared and the centers doubled
centersNearby(d, e) ==
    LET dx == (2 * d.bounds.x + d.bounds.width)
                  - (2 * e.bounds.x + e.bounds.width)
        dy == (2 * d.bounds.y + d.bounds.height)
                  - (2 * e.bounds.y + e.bounds.height)
    IN  (dx * dx + dy * dy) * 4 * Len(diceArg) * Len(diceArg)
            < 25 * sizeSum(diceArg) * sizeSum(diceArg)

\* C20 (as stated): once a cluster is complete, no die still unclustered lies
\* at center-to-center distance below clusterThreshold from a die of that
\* cluster.
ClusterIsClosed ==
    cluster # <<>> =>
        \A u \in (1..Len(sortedDice)) \ used :
            \A m \in 1..Len(cluster) :
                ~centersNearby(sortedDice[u], cluster[m])

\* the blocks as sets of dice
DiceSetsOf(bs) == {Range(bs[b].dice) : b \in 1..Len(bs)}

\* the list with the elements at i and j exchanged
Exchanged(ds, i, j) == [ds EXCEPT ![i] = ds[j], ![j] = ds[i]]

\* C21 (as stated): the blocks returned by groupDiceIntoBlocks, as sets of
\* dice, are the same for every reordering of the input dice; checked for all
\* exchanges of two dice of the input.
GroupingOrderIndependent ==
    pc = "grouped" =>
        \A i, j \in 1..Len(diceArg) :
            DiceSetsOf(groupDiceIntoBlocks(Exchanged(diceArg, i, j)))
                = DiceSetsOf(groupBlocks)

\* C22: a block returned by groupDiceIntoBlocks has id 'block-k' for its
\* index k (from 0) in the list, total the sum of its dice's pips, position
\* the mean of its dice's centers and column 0; the steps build exactly the
\* list the function returns, and no dice give no blocks.
GroupedBlockFields ==
    /\ \A b \in 1..Len(groupBlocks) :
           LET B == groupBlocks[b]
               n == Len(B.dice)
           IN  /\ B.id = BlockIds[b]
               /\ \A c \in 1..Len(groupBlocks) :
                      groupBlocks[c].id = B.id => c = b
               /\ B.total = SumSeq([k \in 1..n |-> B.dice[k].pips])
               /\ B.column = 0
               /\ 2 * n * B.position.xNum
                      = B.position.den
                          * SumSeq([k \in 1..n |->
                                2 * B.dice[k].bounds.x + B.dice[k].bounds.width])
               /\ 2 * n * B.position.yNum
                      = B.position.den
                          * SumSeq([k \in 1..n |->
                                2 * B.dice[k].bounds.y + B.dice[k].bounds.height])
               /\ B.position.den > 0
    /\ pc = "grouped" => groupBlocks = groupDiceIntoBlocks(diceArg)
    /\ (pc = "grouped" /\ diceArg = <<>>) => groupBlocks = <<>>

\* two trays grouped into block-0 and block-1 after a stray cluster was
\* dropped
GroupedBlockFieldsWitness ==
    /\ pc = "grouped"
    /\ Len(groupBlocks) = 2
    /\ groupBlocks[2].id = "block-1"
    /\ Len(diceArg) > Len(groupBlocks[1].dice) + Len(groupBlocks[2].dice)

\* C23 (as stated): after removeDuplicateDetections no two surviving
\* detections overlap each other with ratio > 0.5.
NoOverlappingSurvivors ==
    pc = "detected" =>
        \A i, j \in 1..Len(filteredDice) :
            i # j => ~overlapsMuch(filteredDice[i].bounds,
                                   filteredDice[j].bounds)

\* the block has the colors of the genesis pattern
HasGenesisColors(b) == ColorBag(ColorsOfBlock(b)) = ColorBag(GENESIS_PATTERN)

\* C25: if no input block matches the genesis pattern, every block of the
\* result is invalid, validBlocks = 0 and longestChain is empty.
NoGenesisNoValidBlock ==
    (Done /\ \A i \in 1..Len(blocks) : ~HasGenesisColors(blocks[i])) =>
        /\ \A r \in ResultIndex : ~ResultBlocks[r].isValid
        /\ validationResult.validBlocks = 0
        /\ Chain = <<>>

\* no genesis block, and a block whose colors are those required by a block
\* one column to its left
NoGenesisNoValidBlockWitness ==
    /\ Done
    /\ Len(blocks) >= 2
    /\ \A i \in 1..Len(blocks) : ~HasGenesisColors(blocks[i])
    /\ \E r, q \in ResultIndex :
           /\ ResultBlocks[q].column = ResultBlocks[r].column + 1
           /\ RequiredBag(ResultBlocks[r])
                  = ColorBag(ColorsOfBlock(ResultBlocks[q]))
           /\ ResultBlocks[q].total <= difficulty

\* C26: the k-th element of longestChain (from 0) is a block in column k, so
\* a non-empty chain is no longer than the largest assigned column plus 1.
ChainColumnsConsecutive ==
    (Done /\ Chain # <<>>) =>
        /\ \A k \in 1..Len(Chain) :
               /\ \E i \in ResultIndex : ResultBlocks[i].id = Chain[k]
               /\ ChainBlock(k).column = k - 1
        /\ Len(Chain) <= MaxColumn(ResultIndex) + 1

\* a chain over columns 0, 1, 2
ChainColumnsConsecutiveWitness ==
    /\ Done
    /\ Len(Chain) = 3
    /\ ChainBlock(3).column = 2
    /\ ChainBlock(3).isValid

\* column fields an input list may carry instead of zeros: all different,
\* or all the same
InputColumns(bs) ==
    {[i \in 1..Len(bs) |-> i], [i \in 1..Len(bs) |-> 3]}

\* the input blocks with their column fields replaced
WithColumns(bs, cols) ==
    [i \in 1..Len(bs) |-> [bs[i] EXCEPT !.column = cols[i]]]

\* C27: validateBlocks gives the same result for inputs that differ only in
\* the column values of their blocks; checked against the input with its
\* columns replaced by different values and by one non-zero value.
InputColumnsIgnored ==
    Done =>
        \A cols \in InputColumns(blocks) :
            validateBlocks(WithColumns(blocks, cols), difficulty)
                = validationResult

\* a result whose recomputed columns differ from those of the input
InputColumnsIgnoredWitness ==
    /\ Done
    /\ validationResult.validBlocks >= 2
    /\ \E r \in ResultIndex : ResultBlocks[r].column = 2
    /\ \A i \in 1..Len(blocks) : blocks[i].column = 0

\* C28: an invalid block has a non-empty errors list; a valid non-genesis
\* block has an empty errors list, a predecessorId and total <= difficulty.
ValidityMatchesDiagnostics ==
    \A i \in 1..Len(validatedBlocks) :
        LET B == validatedBlocks[i] IN
        /\ ~B.isValid => B.errors # <<>>
        /\ (B.isValid /\ ~B.isGenesis) =>
               /\ B.errors = <<>>
               /\ B.predecessorId # Null
               /\ B.total <= difficulty

\* a block rejected only for its total, next to a valid successor
ValidityMatchesDiagnosticsWitness ==
    /\ Done
    /\ \E i, j \in 1..Len(validatedBlocks) :
           /\ ~validatedBlocks[i].isGenesis
           /\ ~validatedBlocks[i].isValid
           /\ validatedBlocks[i].predecessorId # Null
           /\ ~validatedBlocks[j].isGenesis
           /\ validatedBlocks[j].isValid

pointInDie(x, y, die) ==
    /\ x >= die.bounds.x
    /\ x <= die.bounds.x + die.bounds.width
    /\ y >= die.bounds.y
    /\ y <= die.bounds.y + die.bounds.height

\* the (blockIndex, dieIndex) pairs whose die contains the point
diceAtPoint(bs, x, y) ==
    {h \in (1..Len(bs)) \X (1..MaxTrayDice) :
        /\ h[2] <= Len(bs[h[1]].dice)
        /\ pointInDie(x, y, bs[h[1]].dice[h[2]])}

\* handleCanvasClick: the first die found by the two nested loops, <<0, 0>>
\* (deselect) when the point lies outside every die
clickedDie(bs, x, y) ==
    IF diceAtPoint(bs, x, y) = {} THEN <<0, 0>>
    ELSE CHOOSE h \in diceAtPoint(bs, x, y) :
             \A g \in diceAtPoint(bs, x, y) :
                 h[1] < g[1] \/ (h[1] = g[1] /\ h[2] <= g[2])

\* changeDieColor(newColor) applied to prev under the current selection
changeDieColor(prev, blockIndex, dieIndex, newColor) ==
    IF blockIndex = 0 \/ dieIndex = 0 THEN prev
    ELSE [prev EXCEPT ![blockIndex].dice[dieIndex].color = newColor]

\* changeDiePips leaving block.total as it was
changeDiePipsStaleTotal(prev, blockIndex, dieIndex, newPips) ==
    IF blockIndex = 0 \/ dieIndex = 0 THEN prev
    ELSE [prev EXCEPT ![blockIndex].dice[dieIndex].pips = newPips]

\* changeDiePips(newPips) applied to prev under the current selection
changeDiePips(prev, blockIndex, dieIndex, newPips) ==
    IF blockIndex = 0 \/ dieIndex = 0 THEN prev
    ELSE LET newDice == [prev[blockIndex].dice EXCEPT
                             ![dieIndex].pips = newPips]
         IN  [prev EXCEPT ![blockIndex].dice = newDice,
                          ![blockIndex].total = SumSeq(Map(diePips, newDice))]

\* the blocks prop: what groupDiceIntoBlocks found in a scene of one tray of
\* nine dice or of two trays of seven
ReviewInputs ==
    {groupDiceIntoBlocks(TrayDice(0, 0, 9)),
     groupDiceIntoBlocks(TrayDice(0, 0, 7) \o TrayDice(130, 0, 7))}

\* canvas points clicked: inside four dice, and outside every die
ClickPoints == {<<10, 10>>, <<34, 10>>, <<140, 10>>, <<164, 10>>, <<-50, -50>>}

\* the color and pip buttons pressed
EditColors == {"red", "purple"}

EditPips == {1, 6}

(***************************************************************************)
(* SpecReview: one BlockReview screen, click by click.                     *)
(***************************************************************************)
reviewFrame == <<pc, validatorVars, pairVars, detectVars, groupVars, appVars>>

InitReview ==
    /\ pc = "review"
    /\ editedBlocks \in ReviewInputs
    /\ selectedBlockIndex = 0
    /\ selectedDieIndex = 0
    /\ edits = 0
    /\ AppIdle
    /\ DetectorIdle
    /\ GrouperIdle
    /\ blocks = <<>>
    /\ difficulty = 25
    /\ sortedBlocks = <<>>
    /\ validatedBlocks = <<>>
    /\ validationResult = Null
    /\ blockA = Null
    /\ blockB = Null
    /\ swaps = 0
    /\ lastResult = NoResult

\* handleCanvasClick
ClickCanvas ==
    /\ pc = "review"
    /\ \E point \in ClickPoints :
           LET hit == clickedDie(editedBlocks, point[1], point[2])
           IN  /\ selectedBlockIndex' = hit[1]
               /\ selectedDieIndex' = hit[2]
    /\ UNCHANGED <<editedBlocks, edits, reviewFrame>>

\* onClick of a block-item of the summary
ClickBlockItem ==
    /\ pc = "review"
    /\ \E index \in 1..Len(editedBlocks) :
           /\ selectedBlockIndex' = index
           /\ selectedDieIndex' = 0
    /\ UNCHANGED <<editedBlocks, edits, reviewFrame>>

ChangeDieColor ==
    /\ pc = "review"
    /\ edits < MaxEdits
    /\ \E newColor \in EditColors :
           editedBlocks' = changeDieColor(editedBlocks, selectedBlockIndex,
                                          selectedDieIndex, newColor)
    /\ edits' = edits + 1
    /\ UNCHANGED <<selectedBlockIndex, selectedDieIndex, reviewFrame>>

ChangeDiePips ==
    /\ pc = "review"
    /\ edits < MaxEdits
    /\ \E newPips \in EditPips :
           editedBlocks' = changeDiePips(editedBlocks, selectedBlockIndex,
                                         selectedDieIndex, newPips)
    /\ edits' = edits + 1
    /\ UNCHANGED <<selectedBlockIndex, selectedDieIndex, reviewFrame>>

NextReview == ClickCanvas \/ ClickBlockItem \/ ChangeDieColor \/ ChangeDiePips

SpecReview == InitReview /\ [][NextReview]_vars

\* the blocks of the review agree except possibly at die d of block b
SameExceptDie(old, new, b, d) ==
    /\ Len(new) = Len(old)
    /\ \A c \in 1..Len(old) :
           /\ new[c].id = old[c].id
           /\ new[c].position = old[c].position
           /\ new[c].column = old[c].column
           /\ Len(new[c].dice) = Len(old[c].dice)
           /\ \A k \in 1..Len(old[c].dice) :
                  (c # b \/ k # d) => new[c].dice[k] = old[c].dice[k]
           /\ c # b => new[c] = old[c]

\* C24: in the review, every block's total is the sum of its dice's pips
\* after any sequence of changeDieColor and changeDiePips; an edit changes at
\* most the selected die of the selected block (and that block's total), and
\* an edit with no die selected changes nothing.
ReviewEditsKeepTotals ==
    /\ [](\A b \in 1..Len(editedBlocks) :
              editedBlocks[b].total
                  = SumSeq([k \in 1..Len(editedBlocks[b].dice) |->
                                editedBlocks[b].dice[k].pips]))
    /\ [][edits' # edits =>
              /\ (selectedBlockIndex = 0 \/ selectedDieIndex = 0) =>
                     editedBlocks' = editedBlocks
              /\ (selectedBlockIndex # 0 /\ selectedDieIndex # 0) =>
                     /\ SameExceptDie(editedBlocks, editedBlocks',
                                      selectedBlockIndex, selectedDieIndex)
                     /\ editedBlocks'[selectedBlockIndex]
                            .dice[selectedDieIndex].bounds
                          = editedBlocks[selectedBlockIndex]
                                .dice[selectedDieIndex].bounds]_vars

\* after three edit calls a die of the second block shows six pips in
\* purple and the block's total has followed, the first block being untouched
ReviewEditsKeepTotalsWitness ==
    /\ pc = "review"
    /\ edits = 3
    /\ Len(editedBlocks) = 2
    /\ editedBlocks[1] \in {bs[1] : bs \in ReviewInputs}
    /\ editedBlocks[2].total = 27
    /\ \E k \in 1..Len(editedBlocks[2].dice) :
           /\ editedBlocks[2].dice[k].pips = 6
           /\ editedBlocks[2].dice[k].color = "purple"

(***************************************************************************)
(* App.tsx: the screen machine.  Each handler runs to completion; its      *)
(* state updates take effect together.                                     *)
(***************************************************************************)
\* the difficulty buttons of the home screen
DifficultyButtons == {20, 25, 30, 35}

\* images the camera can hand over
Images == {"image-1", "image-2"}

\* what detection can find in an image: nothing, a genesis tray, a genesis
\* tray with a successor
DetectedBlockLists ==
    {<<>>,
     <<DetectedBlockAt(1, TrayGenesis, 0)>>,
     <<DetectedBlockAt(1, TrayGenesisThrees, 0),
       DetectedBlockAt(2, TrayYellow, 50)>>}

\* how the detection inside handleCapture can end
CaptureOutcomes ==
    {[ready |-> FALSE, throws |-> FALSE, blocks |-> <<>>],
     [ready |-> TRUE, throws |-> TRUE, blocks |-> <<>>]}
    \cup {[ready |-> TRUE, throws |-> FALSE, blocks |-> bs] :
             bs \in DetectedBlockLists}

\* the blocks the review can hand to onConfirm: as detected, or with the
\* dice of the first block corrected to another tray
ConfirmedVersions(bs) ==
    {bs} \cup {[bs EXCEPT ![1] = DetectedBlockAt(1, t, bs[1].x)] : t \in Trays}

\* handleCapture going on to the review whatever was detected
handleCaptureWithoutEmptyCheck(imageData, outcome) ==
    /\ capturedImage' = imageData
    /\ IF ~outcome.ready
       THEN /\ error' = "OpenCV is not ready yet. Please wait..."
            /\ UNCHANGED <<detectedBlocks, screen>>
       ELSE IF outcome.throws
       THEN /\ error' = "Failed to detect dice. Please try again."
            /\ UNCHANGED <<detectedBlocks, screen>>
       ELSE /\ error' = Null
            /\ detectedBlocks' = outcome.blocks
            /\ screen' = "review"

\* handleCapture(imageData), the detection ending as outcome says
handleCapture(imageData, outcome) ==
    /\ capturedImage' = imageData
    /\ IF ~outcome.ready
       THEN /\ error' = "OpenCV is not ready yet. Please wait..."
            /\ UNCHANGED <<detectedBlocks, screen>>
       ELSE IF outcome.throws
       THEN /\ error' = "Failed to detect dice. Please try again."
            /\ UNCHANGED <<detectedBlocks, screen>>
       ELSE IF Len(outcome.blocks) = 0
       THEN /\ error' = "No blocks detected. Try adjusting the camera angle or calibrating colors."
            /\ UNCHANGED <<detectedBlocks, screen>>
       ELSE /\ error' = Null
            /\ detectedBlocks' = outcome.blocks
            /\ screen' = "review"

\* handleBlocksConfirmed(blocks)
handleBlocksConfirmed(bs) ==
    /\ shownResult' = <<validateBlocks(bs, difficulty)>>
    /\ screen' = "results"

\* goHome()
goHome ==
    /\ screen' = "home"
    /\ capturedImage' = Null
    /\ detectedBlocks' = <<>>
    /\ shownResult' = <<>>
    /\ error' = Null

appFrame == <<pc, blocks, sortedBlocks, validatedBlocks, validationResult,
              pairVars, detectVars, groupVars, reviewVars>>

(***************************************************************************)
(* SpecApp: the App from mounting on, one user action or effect per step.  *)
(***************************************************************************)
\* the state after mounting: the useState defaults, and the calibration the
\* mount effect found in localStorage, if any
InitApp ==
    /\ pc = "app"
    /\ screen = "home"
    /\ cvReady = FALSE
    /\ capturedImage = Null
    /\ detectedBlocks = <<>>
    /\ shownResult = <<>>
    /\ error = Null
    /\ calibration \in {[isCalibrated |-> c] : c \in BOOLEAN}
    /\ difficulty = 25
    /\ ReviewIdle
    /\ DetectorIdle
    /\ GrouperIdle
    /\ blocks = <<>>
    /\ sortedBlocks = <<>>
    /\ validatedBlocks = <<>>
    /\ validationResult = Null
    /\ blockA = Null
    /\ blockB = Null
    /\ swaps = 0
    /\ lastResult = NoResult

\* waitForOpenCV().then(() => setCvReady(true))
OpenCVLoaded ==
    /\ pc = "app"
    /\ ~cvReady
    /\ cvReady' = TRUE
    /\ UNCHANGED <<screen, capturedImage, detectedBlocks, shownResult, error,
                   calibration, difficulty, appFrame>>

\* a difficulty button of the home screen
SetDifficulty ==
    /\ pc = "app"
    /\ screen = "home"
    /\ \E d \in DifficultyButtons : difficulty' = d
    /\ UNCHANGED <<appVars, appFrame>>

\* the Scan Table button, disabled until cvReady
ScanTable ==
    /\ pc = "app"
    /\ screen = "home"
    /\ cvReady
    /\ screen' = "scan"
    /\ UNCHANGED <<cvReady, capturedImage, detectedBlocks, shownResult, error,
                   calibration, difficulty, appFrame>>

\* the Calibrate Colors button
OpenCalibration ==
    /\ pc = "app"
    /\ screen = "home"
    /\ screen' = "calibrate"
    /\ UNCHANGED <<cvReady, capturedImage, detectedBlocks, shownResult, error,
                   calibration, difficulty, appFrame>>

\* handleCalibrationComplete
CalibrationComplete ==
    /\ pc = "app"
    /\ screen = "calibrate"
    /\ calibration' = [isCalibrated |-> TRUE]
    /\ screen' = "home"
    /\ UNCHANGED <<cvReady, capturedImage, detectedBlocks, shownResult, error,
                   difficulty, appFrame>>

\* onCancel of the calibration and onBack of the camera: setScreen('home')
BackHome ==
    /\ pc = "app"
    /\ screen \in {"calibrate", "scan"}
    /\ screen' = "home"
    /\ UNCHANGED <<cvReady, capturedImage, detectedBlocks, shownResult, error,
                   calibration, difficulty, appFrame>>

\* onCapture of the camera screen
Capture ==
    /\ pc = "app"
    /\ screen = "scan"
    /\ \E imageData \in Images, outcome \in CaptureOutcomes :
           handleCapture(imageData, outcome)
    /\ UNCHANGED <<cvReady, shownResult, calibration, difficulty, appFrame>>

\* onRescan of the review and onScanAgain of the results: setScreen('scan')
ScanAgain ==
    /\ pc = "app"
    /\ screen \in {"review", "results"}
    /\ screen' = "scan"
    /\ UNCHANGED <<cvReady, capturedImage, detectedBlocks, shownResult, error,
                   calibration, difficulty, appFrame>>

\* onConfirm of the review
Confirm ==
    /\ pc = "app"
    /\ screen = "review"
    /\ \E bs \in ConfirmedVersions(detectedBlocks) : handleBlocksConfirmed(bs)
    /\ UNCHANGED <<cvReady, capturedImage, detectedBlocks, error, calibration,
                   difficulty, appFrame>>

\* onBack of the review and onHome of the results
GoHome ==
    /\ pc = "app"
    /\ screen \in {"review", "results"}
    /\ goHome
    /\ UNCHANGED <<cvReady, calibration, difficulty, appFrame>>

NextApp ==
    \/ OpenCVLoaded
    \/ SetDifficulty
    \/ ScanTable
    \/ OpenCalibration
    \/ CalibrationComplete
    \/ BackHome
    \/ Capture
    \/ ScanAgain
    \/ Confirm
    \/ GoHome

SpecApp == InitApp /\ [][NextApp]_vars

\* C30: in every state of the App, screen = 'results' implies a non-null
\* validationResult, screen = 'review' implies a non-null capturedImage and a
\* non-empty detectedBlocks; leaving the review or the results for home
\* (goHome) resets capturedImage, detectedBlocks, validationResult and error.
ScreensHaveTheirData ==
    /\ [](/\ screen = "results" => shownResult # <<>>
          /\ screen = "review" =>
                 (capturedImage # Null /\ detectedBlocks # <<>>))
    /\ [][(screen \in {"review", "results"} /\ screen' = "home") =>
              /\ capturedImage' = Null
              /\ detectedBlocks' = <<>>
              /\ shownResult' = <<>>
              /\ error' = Null]_vars

\* the results shown for a second capture, after a capture that found no
\* blocks
ScreensHaveTheirDataWitness ==
    /\ screen = "results"
    /\ capturedImage = "image-2"
    /\ Len(detectedBlocks) = 2
    /\ shownResult # <<>>
    /\ shownResult[1].totalBlocks = 2
    /\ calibration.isCalibrated

====
